---- MODULE Spec2Model ----
(***************************************************************************)
(* Model of src/app.js: an Express service with three routes               *)
(* (POST /recommend, GET /job/:role, GET /jobs) over a MySQL table         *)
(* job_roles and an AI completion provider.                                *)
(*                                                                         *)
(* JavaScript values are tagged pairs <<tag, payload>>.  A JavaScript      *)
(* string is <<"string", cs>> with cs a sequence of one-character strings. *)
(* A string holding JSON text is <<"jsontext", v>> (the serialisation of   *)
(* the value v) and a non-empty string that is not JSON is                 *)
(* <<"badtext", <<>>>>; both are strings for typeof.                       *)
(***************************************************************************)
EXTENDS Integers, Sequences, FiniteSets, TLC

VARIABLES store, provider, reqs

vars == <<store, provider, reqs>>

(***************************************************************************)
(* Characters                                                              *)
(***************************************************************************)
\* The printable ASCII characters, code 32 first (the double quote, the
\* backslash and the backtick are written by name).
Printable ==
  <<" ", "!", "dquote", "#", "$", "%", "&", "'", "(", ")", "*", "+", ",", "-", ".", "/",
    "0", "1", "2", "3", "4", "5", "6", "7", "8", "9", ":", ";", "<", "=", ">", "?",
    "@", "A", "B", "C", "D", "E", "F", "G", "H", "I", "J", "K", "L", "M", "N", "O",
    "P", "Q", "R", "S", "T", "U", "V", "W", "X", "Y", "Z", "[", "backslash", "]", "^", "_",
    "backtick", "a", "b", "c", "d", "e", "f", "g", "h", "i", "j", "k", "l", "m", "n", "o",
    "p", "q", "r", "s", "t", "u", "v", "w", "x", "y", "z", "{", "|", "}", "~">>

CodeOf(c) == 31 + (CHOOSE i \in 1..Len(Printable) : Printable[i] = c)

CharOfCode(n) == IF n >= 32 /\ n <= 126 THEN Printable[n - 31] ELSE "?"

LowerChar(c) ==
  LET n == CodeOf(c) IN IF n >= 65 /\ n <= 90 THEN CharOfCode(n + 32) ELSE c

UpperChar(c) ==
  LET n == CodeOf(c) IN IF n >= 97 /\ n <= 122 THEN CharOfCode(n - 32) ELSE c

\* String.prototype.toLowerCase and SQL LOWER() on ASCII text.
ToLowerCase(cs) == [i \in 1..Len(cs) |-> LowerChar(cs[i])]

ToUpperCase(cs) == [i \in 1..Len(cs) |-> UpperChar(cs[i])]

RECURSIVE TrimLeft(_)
TrimLeft(cs) ==
  IF cs # <<>> /\ Head(cs) = " " THEN TrimLeft(Tail(cs)) ELSE cs

RECURSIVE TrimRight(_)
TrimRight(cs) ==
  IF cs # <<>> /\ cs[Len(cs)] = " " THEN TrimRight(SubSeq(cs, 1, Len(cs) - 1)) ELSE cs

\* SQL TRIM(): leading and trailing spaces removed.
Trim(cs) == TrimRight(TrimLeft(cs))

\* String.prototype.substring(0, n).
Substring0(cs, n) == SubSeq(cs, 1, IF Len(cs) < n THEN Len(cs) ELSE n)

Ellipsis == <<".", ".", ".">>

IsHex(c) ==
  c \in {"0", "1", "2", "3", "4", "5", "6", "7", "8", "9",
         "A", "B", "C", "D", "E", "F", "a", "b", "c", "d", "e", "f"}

HexVal(c) ==
  LET n == CodeOf(c) IN
  IF n <= 57 THEN n - 48 ELSE IF n <= 70 THEN n - 55 ELSE n - 87

Ok(v) == <<"ok", v>>

Throw == <<"throw", <<>>>>

IsOk(x) == x[1] = "ok"

\* decodeURIComponent: a "%" must be followed by two hex digits, else URIError.
\* Escapes of bytes >= 0x80 are not part of the modelled inputs; a lone such
\* byte is not valid UTF-8 and throws.
RECURSIVE Decode(_, _, _)
Decode(cs, i, acc) ==
  IF i > Len(cs) THEN Ok(acc)
  ELSE IF cs[i] # "%" THEN Decode(cs, i + 1, Append(acc, cs[i]))
  ELSE IF i + 2 <= Len(cs) /\ IsHex(cs[i + 1]) /\ IsHex(cs[i + 2])
       THEN LET n == 16 * HexVal(cs[i + 1]) + HexVal(cs[i + 2]) IN
            IF n < 128 THEN Decode(cs, i + 3, Append(acc, CharOfCode(n))) ELSE Throw
       ELSE Throw

DecodeURIComponent(cs) == Decode(cs, 1, <<>>)

(***************************************************************************)
(* JavaScript values                                                       *)
(***************************************************************************)
Undefined == <<"undefined", <<>>>>

Null == <<"null", <<>>>>

Str(cs) == <<"string", cs>>

Num(n) == <<"number", n>>

Arr(xs) == <<"array", xs>>

\* An object is a function from its own property names to values.
Obj(f) == <<"object", f>>

JsonText(v) == <<"jsontext", v>>

BadText == <<"badtext", <<>>>>

Tag(v) == v[1]

Val(v) == v[2]

IsNullish(v) == Tag(v) \in {"undefined", "null"}

\* typeof v === "string"
IsString(v) == Tag(v) \in {"string", "jsontext", "badtext"}

\* Array.isArray(v)
IsArray(v) == Tag(v) = "array"

\* ToBoolean(v): undefined, null, 0 and "" are falsy.
Truthy(v) ==
  CASE Tag(v) \in {"undefined", "null"} -> FALSE
    [] Tag(v) = "string" -> Val(v) # <<>>
    [] Tag(v) = "number" -> Val(v) # 0
    [] OTHER -> TRUE

\* a || b
OrElse(a, b) == IF Truthy(a) THEN a ELSE b

\* v.k for a v that is neither undefined nor null (those throw TypeError).
Get(v, k) ==
  IF Tag(v) = "object" /\ k \in DOMAIN Val(v) THEN Val(v)[k] ELSE Undefined

\* JSON.stringify(v): undefined has no serialisation and yields undefined.
JsonStringify(v) == IF Tag(v) = "undefined" THEN Undefined ELSE JsonText(v)

\* JSON.parse(s) of a string s; anything that is not JSON text throws.
JsonParse(s) == IF Tag(s) = "jsontext" THEN Ok(Val(s)) ELSE Throw

\* src/app.js safeParse
safeParse(value) ==
  IF ~Truthy(value) THEN Arr(<<>>)
  ELSE IF IsString(value)
       THEN LET p == JsonParse(value) IN IF IsOk(p) THEN p[2] ELSE Arr(<<>>)
       ELSE value

\* (p) => typeof p === "string" ? p : p.title ; throws on undefined or null.
IdeaTitle(p) ==
  IF IsString(p) THEN Ok(p) ELSE IF IsNullish(p) THEN Throw ELSE Ok(Get(p, "title"))

\* xs.map(IdeaTitle) ; throws TypeError when xs is not an array (no .map) or an
\* element is undefined or null.
MapTitles(xs) ==
  IF ~IsArray(xs) THEN Throw
  ELSE IF \E i \in 1..Len(Val(xs)) : ~IsOk(IdeaTitle(Val(xs)[i])) THEN Throw
  ELSE Ok(Arr([i \in 1..Len(Val(xs)) |-> IdeaTitle(Val(xs)[i])[2]]))

PreviewRecommend == 130

PreviewJobs == 120

\* d.substring(0, n) + "..." ; throws when d is not a string.
Preview(d, n) ==
  IF Tag(d) = "string" THEN Ok(Str(Substring0(Val(d), n) \o Ellipsis)) ELSE Throw

(***************************************************************************)
(* Identifier scopes (an ES module runs in strict mode: a name bound in no *)
(* enclosing scope throws ReferenceError when it is read).                 *)
(***************************************************************************)
ModuleScope ==
  {"express", "mysql", "cors", "dotenv", "OpenAI", "helmet", "morgan", "app", "PORT",
   "db", "initDB", "openai", "safeParse", "getAIJobRoles", "getAIDetailsForJob",
   "console", "process", "JSON", "Array", "Error", "decodeURIComponent"}

GetAIJobRolesScopeWithRes == {"skills", "prompt", "response", "parsed", "err", "res"}

\* Names bound inside getAIJobRoles(skills).
GetAIJobRolesScope == {"skills", "prompt", "response", "parsed", "err"}

RecommendScopeWithRoleName ==
  {"req", "res", "skills", "aiRoles", "finalJobs", "r", "roleName", "score", "rows",
   "row", "jobDetails", "p", "err", "role_name"}

\* Names bound inside the POST /recommend handler.
RecommendScope ==
  {"req", "res", "skills", "aiRoles", "finalJobs", "r", "roleName", "score", "rows",
   "row", "jobDetails", "p", "err"}

Bound(id, scope) == id \in scope \cup ModuleScope

(***************************************************************************)
(* The job_roles table.  A row holds the column values as the driver       *)
(* returns them: a string, or null for SQL NULL.                           *)
(***************************************************************************)
Row(name, desc, tech, kw, ideas, link) ==
  [role_name |-> name, description |-> desc, tech_stack |-> tech,
   resume_keywords |-> kw, project_ideas |-> ideas, roadmap_link |-> link]

\* A query parameter as the driver sends it: undefined becomes NULL.
SqlParam(v) == IF Tag(v) = "undefined" THEN Null ELSE v

\* WHERE TRIM(LOWER(role_name)) = TRIM(LOWER(?))  (a comparison with NULL is
\* never true)
MatchesTrimLower(row, p) ==
  /\ Tag(row.role_name) = "string"
  /\ Tag(p) = "string"
  /\ Trim(ToLowerCase(Val(row.role_name))) = Trim(ToLowerCase(Val(p)))

\* WHERE LOWER(role_name) = ?
MatchesLower(row, p) ==
  /\ Tag(row.role_name) = "string"
  /\ Tag(p) = "string"
  /\ ToLowerCase(Val(row.role_name)) = Val(p)

\* Lexicographic order of two character sequences under the column's
\* collation (case-insensitive, as MySQL's default collations are).
RECURSIVE CsLeq(_, _)
CsLeq(a, b) ==
  IF a = <<>> THEN TRUE
  ELSE IF b = <<>> THEN FALSE
  ELSE LET x == CodeOf(LowerChar(Head(a)))
           y == CodeOf(LowerChar(Head(b)))
       IN IF x < y THEN TRUE ELSE IF x > y THEN FALSE ELSE CsLeq(Tail(a), Tail(b))

NameLeq(r1, r2) == CsLeq(Val(r1.role_name), Val(r2.role_name))

RECURSIVE InsertSorted(_, _)
InsertSorted(row, sorted) ==
  IF sorted = <<>> THEN <<row>>
  ELSE IF NameLeq(Head(sorted), row)
       THEN <<Head(sorted)>> \o InsertSorted(row, Tail(sorted))
       ELSE <<row>> \o sorted

\* SELECT * FROM job_roles ORDER BY role_name ASC
RECURSIVE OrderByRoleName(_)
OrderByRoleName(rows) ==
  IF rows = <<>> THEN <<>>
  ELSE InsertSorted(rows[Len(rows)], OrderByRoleName(SubSeq(rows, 1, Len(rows) - 1)))

(***************************************************************************)
(* Responses                                                               *)
(***************************************************************************)
\* The body { error: msg }.
ErrorBody(msg) == <<"error", msg>>

Resp(status, body) == [status |-> status, body |-> body]

\* catch (err) { res.status(500).json({ error: "Something went wrong" }) } of a
\* route handler.  Writing a second response throws ERR_HTTP_HEADERS_SENT, here
\* inside the catch block itself: the handler's promise rejects unhandled.
HandlerCatch(rq) ==
  IF rq.sent = <<>>
  THEN [rq EXCEPT !.sent = <<Resp(500, ErrorBody("Something went wrong"))>>, !.pc = "done"]
  ELSE [rq EXCEPT !.fault = TRUE, !.pc = "done"]

\* res.json(body) / res.status(n).json(body) inside a handler's try block.
HandlerSend(rq, resp) ==
  IF rq.sent = <<>> THEN [rq EXCEPT !.sent = <<resp>>, !.pc = "done"] ELSE HandlerCatch(rq)

(***************************************************************************)
(* The AI provider: what openai.chat.completions.create gives back.        *)
(* An outcome is <<"throw", <<>>>> (the call rejects) or                   *)
(* <<"response", r>> with r the response object.                           *)
(***************************************************************************)
Rejects == <<"throw", <<>>>>

Responds(r) == <<"response", r>>

\* A response whose first choice carries the given message content.
Completion(content) ==
  Responds(Obj([choices |-> Arr(<<Obj([message |-> Obj([content |-> content])])>>)]))

\* response.choices[0].message.content, then JSON.parse; a TypeError on the
\* way (a missing choice or message) or a SyntaxError is a throw.
ParseFirstChoice(response) ==
  LET choices == Get(response, "choices") IN
  IF ~IsArray(choices) \/ Len(Val(choices)) = 0 THEN Throw
  ELSE LET c == Val(choices)[1] IN
       IF IsNullish(c) \/ IsNullish(Get(c, "message")) THEN Throw
       ELSE JsonParse(Get(Get(c, "message"), "content"))

\* The try block of getAIJobRoles: Ok(list) or a throw.
SuggestTry(outcome) ==
  IF outcome[1] = "throw" THEN Throw
  ELSE LET response == outcome[2]
           choices == Get(response, "choices")
       IN IF ~Truthy(choices) \/ (IsArray(choices) /\ Len(Val(choices)) = 0) THEN Throw
          ELSE LET parsed == ParseFirstChoice(response) IN
               IF ~IsOk(parsed) THEN Throw
               ELSE LET v == parsed[2] IN
                    IF IsArray(v) THEN Ok(Val(v))
                    ELSE IF IsNullish(v) THEN Throw
                    ELSE IF Truthy(Get(v, "roles")) /\ IsArray(Get(v, "roles"))
                         THEN Ok(Val(Get(v, "roles")))
                    ELSE IF Truthy(Get(v, "jobs")) /\ IsArray(Get(v, "jobs"))
                         THEN Ok(Val(Get(v, "jobs")))
                    ELSE Ok(<<>>)

AIUnavailable == Resp(500, ErrorBody("AI service unavailable. Please try again later."))

getAIJobRolesSwallows(rq, outcome) ==
  LET t == SuggestTry(outcome) IN
  [rq |-> rq, result |-> IF IsOk(t) THEN t ELSE Ok(<<>>)]

\* getAIJobRoles(skills), resumed with the provider's outcome.  Its catch block
\* reads `res`: where that name is bound it writes a 500 and returns [], where
\* it is not the read throws ReferenceError out of the function.
getAIJobRoles(rq, outcome) ==
  LET t == SuggestTry(outcome) IN
  IF IsOk(t) THEN [rq |-> rq, result |-> t]
  ELSE IF Bound("res", GetAIJobRolesScope)
       THEN [rq |-> [rq EXCEPT !.sent = Append(@, AIUnavailable)], result |-> Ok(<<>>)]
       ELSE [rq |-> rq, result |-> Throw]

\* The detail the provider writes for a role name, by the shape of its answer.
DetailReply(shape, roleName) ==
  LET long == [i \in 1..140 |-> Printable[66 + (i % 26)]]
      base == [description |-> Str(long),
               techStack |-> Arr(<<Str(<<"j", "s">>)>>),
               resumeKeywords |-> Arr(<<Str(<<"a", "p", "i">>)>>),
               projectIdeas |-> Arr(<<Obj([title |-> Str(<<"c", "l", "i">>)]), Str(<<"b", "o", "t">>)>>),
               roadmapLink |-> Str(<<"r", ".", "s", "h">>)]
  IN CASE shape = "throw" -> Rejects
       [] shape = "unparseable" -> Completion(BadText)
       [] shape = "null" -> Completion(JsonText(Null))
       [] shape = "jobRole" ->
            Completion(JsonText(Obj([k \in DOMAIN base \cup {"jobRole"} |->
               IF k = "jobRole" THEN roleName ELSE base[k]])))
       [] shape = "jobrole" ->
            Completion(JsonText(Obj([k \in DOMAIN base \cup {"jobrole"} |->
               IF k = "jobrole" THEN roleName ELSE base[k]])))
       [] shape = "sparse" ->
            Completion(JsonText(Obj([jobRole |-> roleName, description |-> Str(long)])))

\* getAIDetailsForJob(roleName), resumed with the provider's outcome: the
\* parsed content, or null on any throw.
getAIDetailsForJob(outcome) ==
  IF outcome[1] = "throw" THEN Null
  ELSE LET parsed == ParseFirstChoice(outcome[2]) IN
       IF IsOk(parsed) THEN parsed[2] ELSE Null

(***************************************************************************)
(* Requests.  Each slot holds one request: its handler's position (pc, the *)
(* await it is suspended at), its locals, the responses written and       *)
(* the calls it has made to the provider (aiCalls) and the store (dbReads,  *)
(* dbWrites).                                                              *)
(***************************************************************************)
IdleRequest ==
  [kind |-> "none", input |-> Undefined, pc |-> "idle", aiRoles |-> <<>>, idx |-> 1,
   finalJobs |-> <<>>, jobDetails |-> Undefined, sent |-> <<>>, fault |-> FALSE,
   aiCalls |-> 0, dbReads |-> 0, dbWrites |-> 0, dbErr |-> FALSE]

NewRequest(kind, input) == [IdleRequest EXCEPT !.kind = kind, !.input = input]

Step(rq, st) == [rq |-> rq, store |-> st]

(***************************************************************************)
(* POST /recommend                                                         *)
(***************************************************************************)
AcceptsEmptySkills(skills) == Truthy(skills) /\ IsArray(skills)

\* The negation of  !skills || !Array.isArray(skills) || skills.length === 0
SkillsAccepted(skills) == Truthy(skills) /\ IsArray(skills) /\ Len(Val(skills)) # 0

\* const roleName = typeof r === "string" ? r : r.role
RoleNameOf(r) == IF IsString(r) THEN r ELSE Get(r, "role")

\* const score = r.score || null
ScoreOf(r) == OrElse(Get(r, "score"), Null)

\* The head of  for (const r of aiRoles)  up to the SELECT being issued, and
\* res.json(finalJobs) once the list is exhausted.  The SELECT's parameter list
\* reads `role_name`.
LoopHead(rq) ==
  IF rq.idx > Len(rq.aiRoles) THEN HandlerSend(rq, Resp(200, Arr(rq.finalJobs)))
  ELSE LET r == rq.aiRoles[rq.idx] IN
       IF IsNullish(r) THEN HandlerCatch(rq)
       ELSE IF ~Bound("role_name", RecommendScope) THEN HandlerCatch(rq)
       ELSE [rq EXCEPT !.pc = "query", !.dbReads = @ + 1]

\* Resumed after getAIJobRoles: const aiRoles = await getAIJobRoles(skills).
AfterSuggest(rq, outcome) ==
  LET g == getAIJobRoles(rq, outcome) IN
  IF IsOk(g.result)
  THEN LoopHead([g.rq EXCEPT !.aiRoles = g.result[2], !.idx = 1])
  ELSE HandlerCatch(g.rq)

\* The response entry built from a stored row.
HitEntry(row, score) ==
  LET pv == Preview(row.description, PreviewRecommend)
      ideas == MapTitles(safeParse(row.project_ideas))
  IN IF IsOk(pv) /\ IsOk(ideas)
     THEN Ok(Obj([role |-> row.role_name, score |-> score,
                  preview |-> pv[2], projectIdeas |-> ideas[2]]))
     ELSE Throw

\* Resumed after the SELECT: the hit branch, or the call of getAIDetailsForJob.
AfterQuery(rq, st, dbOk) ==
  LET r == rq.aiRoles[rq.idx]
      q == rq
      rows == SelectSeq(st, LAMBDA row : MatchesTrimLower(row, SqlParam(RoleNameOf(r))))
  IN IF ~dbOk THEN HandlerCatch([q EXCEPT !.dbErr = TRUE])
     ELSE IF Len(rows) > 0
          THEN LET e == HitEntry(rows[1], ScoreOf(r)) IN
               IF IsOk(e)
               THEN LoopHead([q EXCEPT !.finalJobs = Append(@, e[2]), !.idx = @ + 1])
               ELSE HandlerCatch(q)
          ELSE [q EXCEPT !.pc = "describe", !.aiCalls = @ + 1]

\* Resumed after getAIDetailsForJob: the console.log that reads
\* jobDetails.jobRole, then  if (jobDetails)  up to the INSERT being issued.
AfterDescribe(rq, outcome) ==
  LET jobDetails == getAIDetailsForJob(outcome)
      q == [rq EXCEPT !.jobDetails = jobDetails]
  IN IF IsNullish(jobDetails) THEN HandlerCatch(q)
     ELSE IF Truthy(jobDetails) THEN [q EXCEPT !.pc = "insert", !.dbWrites = @ + 1]
     ELSE LoopHead([q EXCEPT !.idx = @ + 1])

\* The row the INSERT writes from jobDetails.
InsertedRow(jd) ==
  Row(SqlParam(OrElse(Get(jd, "jobRole"), Get(jd, "jobrole"))),
      SqlParam(Get(jd, "description")),
      SqlParam(JsonStringify(Get(jd, "techStack"))),
      SqlParam(JsonStringify(Get(jd, "resumeKeywords"))),
      SqlParam(JsonStringify(Get(jd, "projectIdeas"))),
      SqlParam(Get(jd, "roadmapLink")))

\* The response entry built from freshly generated detail.
MissEntry(jd, score) ==
  LET pv == Preview(Get(jd, "description"), PreviewRecommend)
      ideas == MapTitles(Get(jd, "projectIdeas"))
  IN IF IsOk(pv) /\ IsOk(ideas)
     THEN Ok(Obj([role |-> Get(jd, "role"), score |-> score,
                  preview |-> pv[2], projectIdeas |-> ideas[2]]))
     ELSE Throw

\* Resumed after the INSERT: finalJobs.push(...) and the next iteration.
AfterInsert(rq, st, dbOk) ==
  LET r == rq.aiRoles[rq.idx]
      e == MissEntry(rq.jobDetails, ScoreOf(r))
  IN IF ~dbOk THEN Step(HandlerCatch([rq EXCEPT !.dbErr = TRUE]), st)
     ELSE LET q == rq
              st2 == Append(st, InsertedRow(rq.jobDetails))
          IN IF IsOk(e)
             THEN Step(LoopHead([q EXCEPT !.finalJobs = Append(@, e[2]), !.idx = @ + 1]), st2)
             ELSE Step(HandlerCatch(q), st2)

\* The handler from its call to its first await.
RecommendStart(skills) ==
  LET rq == NewRequest("recommend", skills) IN
  IF ~SkillsAccepted(skills)
  THEN HandlerSend(rq, Resp(400, ErrorBody("Skills array required")))
  ELSE [rq EXCEPT !.pc = "suggest", !.aiCalls = @ + 1]

\* The handler resumed at the await it is suspended at, run to its next await
\* or to its end.
RecommendResumed(rq, st, prov, dbOk) ==
  CASE rq.pc = "suggest" -> Step(AfterSuggest(rq, prov.suggest), st)
    [] rq.pc = "query" -> Step(AfterQuery(rq, st, dbOk), st)
    [] rq.pc = "describe" ->
         Step(AfterDescribe(rq, DetailReply(prov.describe, RoleNameOf(rq.aiRoles[rq.idx]))), st)
    [] rq.pc = "insert" -> AfterInsert(rq, st, dbOk)

(***************************************************************************)
(* GET /job/:role                                                          *)
(***************************************************************************)
\* The router decodes the path segment into req.params.role; a segment that
\* does not decode never reaches the handler and goes to the error middleware.
RouteParam(segment) == DecodeURIComponent(segment)

ServerError == Resp(500, ErrorBody("Server error"))

\* The body of the route handler, given req.params.role.
JobHandler(rq, st, param, dbOk) ==
  LET decoded == DecodeURIComponent(param) IN
  IF ~IsOk(decoded) THEN HandlerCatch(rq)
  ELSE LET role == ToLowerCase(decoded[2])
           q == [rq EXCEPT !.dbReads = @ + 1]
           rows == SelectSeq(st, LAMBDA row : MatchesLower(row, Str(ToLowerCase(role))))
       IN IF ~dbOk THEN HandlerCatch([q EXCEPT !.dbErr = TRUE])
          ELSE IF Len(rows) = 0
               THEN HandlerSend(q, Resp(404, ErrorBody("Job not found")))
               ELSE LET job == rows[1] IN
                    HandlerSend(q, Resp(200, Obj(
                      [role |-> job.role_name,
                       description |-> job.description,
                       techStack |-> safeParse(job.tech_stack),
                       resumeKeywords |-> safeParse(job.resume_keywords),
                       projectIdeas |-> safeParse(job.project_ideas),
                       roadmapLink |-> job.roadmap_link])))

\* GET /job/<segment> from routing to the response.
JobRequestHandled(segment, st, dbOk) ==
  LET rq == NewRequest("job", Str(segment))
      param == RouteParam(segment)
  IN IF IsOk(param) THEN JobHandler(rq, st, param[2], dbOk)
     ELSE [rq EXCEPT !.sent = <<ServerError>>, !.pc = "done"]

(***************************************************************************)
(* GET /jobs                                                               *)
(***************************************************************************)
JobsQueryUnordered(st) == st

\* const [rows] = await db.query("SELECT * FROM job_roles ORDER BY role_name ASC")
JobsQuery(st) == OrderByRoleName(st)

\* rows.map((row) => ({ role, preview, projectIdeas, roadmapLink }))
JobsEntry(row) ==
  LET pv == Preview(row.description, PreviewJobs)
      ideas == MapTitles(safeParse(row.project_ideas))
  IN IF IsOk(pv) /\ IsOk(ideas)
     THEN Ok(Obj([role |-> row.role_name, preview |-> pv[2],
                  projectIdeas |-> ideas[2],
                  roadmapLink |-> OrElse(row.roadmap_link, Null)]))
     ELSE Throw

JobsRequestHandled(st, dbOk) ==
  LET rq == NewRequest("jobs", Undefined)
      q == [rq EXCEPT !.dbReads = @ + 1]
      rows == JobsQuery(st)
  IN IF ~dbOk THEN HandlerCatch([q EXCEPT !.dbErr = TRUE])
     ELSE IF \E i \in 1..Len(rows) : ~IsOk(JobsEntry(rows[i])) THEN HandlerCatch(q)
     ELSE HandlerSend(q, Resp(200, Arr([i \in 1..Len(rows) |-> JobsEntry(rows[i])[2]])))

(***************************************************************************)
(* Inputs: role names, table contents, provider behaviours, request data   *)
(***************************************************************************)
MaxRequests == 2

Slots == 1..MaxRequests

NameDev == <<"D", "e", "v">>

NameQA == <<"Q", "A">>

NameApi == <<"a", "p", "i">>

\* A role no seed table holds.
NameOps == <<"o", "p", "s">>

\* "50% QA"
NameHalf == <<"5", "0", "%", " ", "Q", "A">>

\* A description of n letters.
Text(n) == [i \in 1..n |-> Printable[66 + (i % 26)]]

Ideas ==
  Arr(<<Obj([title |-> Str(<<"c", "l", "i">>), level |-> Num(1)]), Str(<<"b", "o", "t">>)>>)

RowDev ==
  Row(Str(NameDev), Str(Text(135)), JsonText(Arr(<<Str(<<"j", "s">>)>>)),
      JsonText(Arr(<<Str(<<"a", "p", "i">>)>>)), JsonText(Ideas), Str(<<"r", ".", "s", "h">>))

RowQA == Row(Str(NameQA), Str(Text(130)), BadText, Null, Null, Null)

RowApi ==
  Row(Str(NameApi), Str(Text(121)), JsonText(Arr(<<>>)), Str(<<>>),
      JsonText(Arr(<<Str(<<"b", "o", "t">>)>>)), Null)

RowHalf ==
  Row(Str(NameHalf), Str(Text(7)), Null, JsonText(Arr(<<Str(<<"q", "a">>)>>)), BadText,
      Str(<<"r", ".", "s", "h">>))

\* Tables the service may be started on (role names pairwise distinct after
\* trimming and lower-casing), in insertion order.
SeedStores == { <<>>, <<RowQA, RowHalf, RowDev, RowApi>> }

Suggestion(name, score) == Obj([role |-> Str(name), score |-> Num(score)])

\* What the provider may answer to the role-suggestion prompt.
SuggestOutcomes ==
  { Rejects,
    Responds(Obj([id |-> Num(1)])),
    Responds(Obj([choices |-> Arr(<<>>)])),
    Completion(BadText),
    Completion(JsonText(Null)),
    Completion(JsonText(Arr(<<Str(NameOps)>>))),
    Completion(JsonText(Arr(<<Null>>))),
    Completion(JsonText(Obj([roles |-> Arr(<<Suggestion(NameDev, 85), Suggestion(NameOps, 0)>>)]))),
    Completion(JsonText(Obj([roles |-> Arr(<<Suggestion(NameOps, 70), Suggestion(ToLowerCase(NameQA), 65)>>)]))),
    Completion(JsonText(Obj([jobs |-> Arr(<<Suggestion(<<" ", "q", "a", " ">>, 40)>>)]))),
    Completion(JsonText(Obj([roles |-> Arr(<<>>)]))),
    Completion(JsonText(Obj([text |-> Str(NameDev)]))) }

\* The shapes of the provider's answer to the role-detail prompt.
DescribeShapes == {"throw", "unparseable", "null", "jobRole", "jobrole", "sparse"}

Providers ==
  {[suggest |-> s, describe |-> "jobRole"] : s \in SuggestOutcomes}
  \cup {[suggest |-> s, describe |-> d] :
          s \in { Completion(JsonText(Obj([roles |-> Arr(<<Suggestion(NameOps, 70),
                                                          Suggestion(ToLowerCase(NameQA), 65)>>)]))) },
          d \in DescribeShapes}

\* req.body.skills
SkillsInputs ==
  { Undefined, Null, Str(<<>>), Str(<<"j", "s">>), Obj([length |-> Num(1)]),
    Arr(<<>>), Arr(<<Str(<<"j", "s">>), Str(<<"s", "q", "l">>)>>) }

\* encodeURIComponent on the modelled characters: "%" and " " are escaped.
RECURSIVE EncodeURIComponent(_)
EncodeURIComponent(cs) ==
  IF cs = <<>> THEN <<>>
  ELSE (CASE Head(cs) = "%" -> <<"%", "2", "5">>
          [] Head(cs) = " " -> <<"%", "2", "0">>
          [] OTHER -> <<Head(cs)>>) \o EncodeURIComponent(Tail(cs))

\* The path segments clients ask GET /job/ for: the stored and other names in
\* several letter cases, percent-encoded, and with letters escaped.
Segments ==
  { EncodeURIComponent(n) : n \in {NameDev, ToUpperCase(NameDev), NameHalf, NameOps} }
  \cup { <<"%", "4", "4", "e", "v">>, <<"%", "z", "z">> }

(***************************************************************************)
(* The state machine                                                       *)
(***************************************************************************)
Init ==
  /\ store \in SeedStores
  /\ provider \in Providers
  /\ reqs = [i \in Slots |-> IdleRequest]

\* Slots are taken in order of arrival.
Free(i) == reqs[i].pc = "idle" /\ \A j \in 1..(i - 1) : reqs[j].pc # "idle"

\* POST /recommend arrives: the handler runs to its first await.
RecommendRequest(i) ==
  /\ Free(i)
  /\ \E skills \in SkillsInputs :
       reqs' = [reqs EXCEPT ![i] = RecommendStart(skills)]
  /\ UNCHANGED <<store, provider>>

\* A suspended POST /recommend handler is resumed; dbOk is whether the store
\* operation it awaited, if any, succeeded.
RecommendResume(i) ==
  /\ reqs[i].kind = "recommend"
  /\ reqs[i].pc \in {"suggest", "query", "describe", "insert"}
  /\ \E dbOk \in BOOLEAN :
       LET out == RecommendResumed(reqs[i], store, provider, dbOk) IN
       /\ reqs' = [reqs EXCEPT ![i] = out.rq]
       /\ store' = out.store
  /\ UNCHANGED provider

\* GET /job/:role arrives and is answered.
JobRequest(i) ==
  /\ Free(i)
  /\ \E segment \in Segments, dbOk \in BOOLEAN :
       reqs' = [reqs EXCEPT ![i] = JobRequestHandled(segment, store, dbOk)]
  /\ UNCHANGED <<store, provider>>

\* GET /jobs arrives and is answered.
JobsRequest(i) ==
  /\ Free(i)
  /\ \E dbOk \in BOOLEAN :
       reqs' = [reqs EXCEPT ![i] = JobsRequestHandled(store, dbOk)]
  /\ UNCHANGED <<store, provider>>

Next ==
  \E i \in Slots :
    \/ RecommendRequest(i)
    \/ RecommendResume(i)
    \/ JobRequest(i)
    \/ JobsRequest(i)

Spec == Init /\ [][Next]_vars

(***************************************************************************)
(* Properties                                                              *)
(***************************************************************************)
Answered(rq) == rq.pc = "done"

NonEmptyArray(v) == v[1] = "array" /\ Len(v[2]) > 0

Status(rq) == rq.sent[1].status

Body(rq) == rq.sent[1].body

\* A 200 with an array, or a 4xx/5xx with an object that has an error field.
WellFormed(resp) ==
  \/ resp.status = 200 /\ resp.body[1] = "array"
  \/ resp.status >= 400 /\ resp.status <= 599 /\ resp.body[1] = "error"

\* The suggested entries of a request that name a role: <<name, score>> pairs.
IsNamed(r) == r[1] = "string" \/ (r[1] = "object" /\ Get(r, "role")[1] = "string")

NameOfSuggestion(r) == IF r[1] = "string" THEN r[2] ELSE Get(r, "role")[2]

Normal(cs) == Trim(ToLowerCase(cs))

\* The rows of a table stored under a role name (trimmed, lower-cased).
RowsNamed(st, cs) ==
  SelectSeq(st, LAMBDA row : row.role_name[1] = "string" /\ Normal(row.role_name[2]) = Normal(cs))

\* C1: a POST /recommend whose skills is a non-empty array, whatever the
\* provider and the store do, never faults; once it has run it has written
\* exactly one response, a 200 with an array or a 4xx/5xx with an error field;
\* until then it has written none and is suspended at an await, from which
\* RecommendResume resumes it.
C1_OneWellFormedResponse ==
  \A i \in Slots :
    LET rq == reqs[i] IN
    (rq.kind = "recommend" /\ NonEmptyArray(rq.input)) =>
      /\ ~rq.fault
      /\ IF Answered(rq) THEN Len(rq.sent) = 1 /\ WellFormed(rq.sent[1])
                         ELSE rq.sent = <<>>
                              /\ rq.pc \in {"suggest", "query", "describe", "insert"}

\* C1 witness: a request with a non-empty skills array, to which the provider
\* suggested roles, has run its loop and was answered.
C1_Witness ==
  \E i \in Slots :
    /\ reqs[i].kind = "recommend" /\ NonEmptyArray(reqs[i].input) /\ Answered(reqs[i])
    /\ Len(reqs[i].aiRoles) = 2 /\ Len(reqs[i].sent) = 1

\* C2 (as claimed): a suggested role that has a stored row whose description has
\* at least 130 characters is answered 200 with an entry whose role is the
\* stored role_name and whose preview is the first 130 characters plus "...".
C2_StoredRolePreview ==
  \A i \in Slots :
    LET rq == reqs[i] IN
    (rq.kind = "recommend" /\ Answered(rq) /\ ~rq.dbErr) =>
      \A k \in 1..Len(rq.aiRoles) :
        IsNamed(rq.aiRoles[k]) =>
          LET rows == RowsNamed(store, NameOfSuggestion(rq.aiRoles[k])) IN
          (Len(rows) > 0 /\ Len(rows[1].description[2]) >= 130) =>
            /\ Status(rq) = 200
            /\ \E j \in 1..Len(Body(rq)[2]) :
                 LET e == Body(rq)[2][j] IN
                 /\ Get(e, "role") = rows[1].role_name
                 /\ Get(e, "preview") =
                      Str(SubSeq(rows[1].description[2], 1, 130) \o <<".", ".", ".">>)

\* The provider gives no detail (the call fails, or its content is no JSON or null).
NoDetail == provider.describe \in {"throw", "unparseable", "null"}

FullDetail == provider.describe \in {"jobRole", "jobrole"}

AllNamed(rq) == \A k \in 1..Len(rq.aiRoles) : IsNamed(rq.aiRoles[k])

\* C3 (as claimed): when suggested roles have no row and the detail generator
\* returns none, they are skipped: nothing is inserted and the request answers
\* 200 with one entry per suggested role that has a row.
C3_SkipUndescribedRole ==
  \A i \in Slots :
    LET rq == reqs[i]
        missing == {k \in 1..Len(rq.aiRoles) :
                      RowsNamed(store, NameOfSuggestion(rq.aiRoles[k])) = <<>>}
    IN (rq.kind = "recommend" /\ Answered(rq) /\ ~rq.dbErr /\ NoDetail
        /\ AllNamed(rq) /\ missing # {}) =>
         /\ rq.dbWrites = 0
         /\ Status(rq) = 200
         /\ Len(Body(rq)[2]) = Len(rq.aiRoles) - Cardinality(missing)

\* The detail the provider generated for a role name.
Generated(cs) == ParseFirstChoice(DetailReply(provider.describe, Str(cs))[2])[2]

\* C4 (as claimed): once a request that suggested a role with no row, for which
\* detail was generated, has been answered, GET /job/ with that name in any
\* letter case answers 200 with the generated description, tech stack, resume
\* keywords and roadmap link.
C4_RoundTrip ==
  \A i \in Slots :
    LET rq == reqs[i] IN
    (rq.kind = "recommend" /\ Answered(rq) /\ ~rq.dbErr /\ FullDetail /\ AllNamed(rq)) =>
      \A k \in 1..Len(rq.aiRoles) :
        LET n == NameOfSuggestion(rq.aiRoles[k]) IN
        (\A st \in SeedStores : RowsNamed(st, n) = <<>>) =>
          \A seg \in {EncodeURIComponent(n), EncodeURIComponent(ToUpperCase(n))} :
            LET got == JobRequestHandled(seg, store, TRUE).sent[1] IN
            /\ got.status = 200
            /\ Get(got.body, "description") = Get(Generated(n), "description")
            /\ Get(got.body, "techStack") = Get(Generated(n), "techStack")
            /\ Get(got.body, "resumeKeywords") = Get(Generated(n), "resumeKeywords")
            /\ Get(got.body, "roadmapLink") = Get(Generated(n), "roadmapLink")

\* C5 (as claimed): no two rows share a role name (trimmed, lower-cased), and
\* once a request that suggested a role name has been answered there is exactly
\* one row for that name: inserted by the first request that missed it, read by
\* every later one.
C5_OneRowPerName ==
  /\ \A a, b \in 1..Len(store) :
       (a # b /\ store[a].role_name[1] = "string" /\ store[b].role_name[1] = "string") =>
         Normal(store[a].role_name[2]) # Normal(store[b].role_name[2])
  /\ \A i \in Slots :
       LET rq == reqs[i] IN
       (rq.kind = "recommend" /\ Answered(rq) /\ ~rq.dbErr /\ FullDetail /\ AllNamed(rq)) =>
         \A k \in 1..Len(rq.aiRoles) :
           Len(RowsNamed(store, NameOfSuggestion(rq.aiRoles[k]))) = 1

\* The body GET /job/:role owes for a stored row: the stored columns, the list
\* columns deserialised (an absent or unparseable list reads as empty).
StoredFields(row) ==
  LET list(c) == IF c[1] = "jsontext" THEN c[2] ELSE Arr(<<>>) IN
  Obj([role |-> row.role_name, description |-> row.description,
       techStack |-> list(row.tech_stack), resumeKeywords |-> list(row.resume_keywords),
       projectIdeas |-> list(row.project_ideas), roadmapLink |-> row.roadmap_link])

\* C6 (as claimed): GET /job/<segment>, for a segment that is the percent-encoding
\* of a name, answers 404 "Job not found" when no row is stored under that name
\* and 200 with the stored fields when one is, in any letter case, and makes no
\* call to the AI provider.
C6_JobLookup ==
  \A i \in Slots :
    LET rq == reqs[i]
        name == DecodeURIComponent(rq.input[2])
    IN (rq.kind = "job" /\ Answered(rq) /\ ~rq.dbErr /\ IsOk(name)) =>
         LET rows == SelectSeq(store, LAMBDA row :
                       ToLowerCase(row.role_name[2]) = ToLowerCase(name[2]))
         IN /\ rq.aiCalls = 0
            /\ IF rows = <<>>
               THEN rq.sent = <<Resp(404, ErrorBody("Job not found"))>>
               ELSE rq.sent = <<Resp(200, StoredFields(rows[1]))>>

\* The outcomes of the suggestion call that the claim counts as failures: the
\* call throws, there are no choices, the content is not JSON.
SuggestionFails ==
  provider.suggest \in { Rejects, Responds(Obj([id |-> Num(1)])),
                         Responds(Obj([choices |-> Arr(<<>>)])), Completion(BadText) }

\* C7: when the role-suggestion call fails, the request is answered by exactly
\* one response, a 500 with an error field, no list is returned, and the
\* request makes no query and no insert.
C7_SuggestionFailure ==
  \A i \in Slots :
    LET rq == reqs[i] IN
    (rq.kind = "recommend" /\ NonEmptyArray(rq.input) /\ SuggestionFails) =>
      /\ rq.dbReads = 0 /\ rq.dbWrites = 0 /\ ~rq.fault
      /\ Answered(rq) =>
           /\ Len(rq.sent) = 1
           /\ Status(rq) = 500
           /\ Body(rq)[1] = "error"

\* C7 witness: a request was answered after the suggestion call had failed.
C7_Witness ==
  \E i \in Slots :
    /\ reqs[i].kind = "recommend" /\ NonEmptyArray(reqs[i].input) /\ Answered(reqs[i])
    /\ SuggestionFails /\ provider.suggest = Completion(BadText)
    /\ reqs[i].aiCalls = 1 /\ Status(reqs[i]) = 500

\* C8: a POST /recommend whose skills is missing, no array or an empty array is
\* answered 400 "Skills array required" in the step it arrives in, with no call
\* to the provider, no read or write of the table, and the table unchanged.
C8_Validation ==
  [][\A i \in Slots :
       (reqs[i].pc = "idle" /\ reqs'[i].kind = "recommend"
        /\ ~NonEmptyArray(reqs'[i].input)) =>
         /\ reqs'[i].pc = "done"
         /\ reqs'[i].sent = <<Resp(400, ErrorBody("Skills array required"))>>
         /\ reqs'[i].aiCalls = 0 /\ reqs'[i].dbReads = 0 /\ reqs'[i].dbWrites = 0
         /\ store' = store]_vars

\* C8 witness: requests with an empty array and with no skills were answered 400.
C8_Witness ==
  \E i, j \in Slots :
    /\ reqs[i].kind = "recommend" /\ reqs[i].input = Arr(<<>>) /\ Status(reqs[i]) = 400
    /\ reqs[j].kind = "recommend" /\ reqs[j].input = Undefined /\ Status(reqs[j]) = 400

\* C9: a step that answers GET /job/:role or GET /jobs leaves the table as it
\* is; no step changes or removes a row (rows are at most appended); and the
\* answer to GET /job/:role for a role is the same before and after any step,
\* so two such requests answered with the store reachable are answered alike.
C9_ReadsDoNotMutate ==
  [][/\ \A i \in Slots :
          (reqs[i].pc = "idle" /\ reqs'[i].kind \in {"job", "jobs"}) => store' = store
     /\ Len(store') >= Len(store)
     /\ SubSeq(store', 1, Len(store)) = store
     /\ store' # store =>
          \A seg \in Segments :
            JobRequestHandled(seg, store', TRUE).sent = JobRequestHandled(seg, store, TRUE).sent
     /\ \A i, j \in Slots :
          (reqs'[i].kind = "job" /\ reqs'[j].kind = "job" /\ reqs'[i].input = reqs'[j].input
           /\ ~reqs'[i].dbErr /\ ~reqs'[j].dbErr) => reqs'[i].sent = reqs'[j].sent]_vars

\* C9 witness: the same stored role was fetched twice and answered 200 both times.
C9_Witness ==
  \E i, j \in Slots :
    /\ i # j /\ reqs[i].kind = "job" /\ reqs[j].kind = "job"
    /\ Answered(reqs[i]) /\ Answered(reqs[j])
    /\ reqs[i].input = reqs[j].input /\ Status(reqs[i]) = 200 /\ Status(reqs[j]) = 200

====
